---- MODULE Spec2Model ----
(***************************************************************************)
(* The signal engine of dashboard.py: one run of the script, from the      *)
(* summary loop over the assets (ticker, summary series and percent        *)
(* changes, the Short, Long and Income strategies, the SummaryRow) to the  *)
(* flowchart lookups and the detailed-chart fetches.                       *)
(*                                                                         *)
(* The exchange is the environment.  A call to it returns bars, returns    *)
(* no bars, or raises.  Times are whole hours.  A float is an integer, or  *)
(* NaN; a percent change is an exact fraction in lowest terms.  The        *)
(* arithmetic of an indicator over the bars is not computed: the exchange  *)
(* response carries the value the arithmetic yields on a full window, and  *)
(* the indicator operators decide, from the number of bars, whether the    *)
(* latest position holds that value or NaN, as pandas' rolling windows do. *)
(***************************************************************************)
EXTENDS Integers, Sequences, FiniteSets, TLC

\* ------------------------------------------------------------ bounds
\* How many of the configured assets a run iterates over.
NumAssets == 2
\* The longest summary series the exchange returns in the percent-change runs.
MaxBars == 3

\* ------------------------------------------------- program constants
AllAssets == <<"BTC/USDT", "ETH/USDT", "SOL/USDT", "ADA/USDT", "SUI/USDT">>
assets == SubSeq(AllAssets, 1, NumAssets)
AssetSet == {assets[k] : k \in 1..Len(assets)}

timeframe_hours == [o \in {"1w", "1m", "3m"} |->
                      CASE o = "1w" -> 24 * 7 [] o = "1m" -> 24 * 30 [] OTHER -> 24 * 90]
limit == 1000
SubWindows == [w \in {"1h", "1d", "1w", "1m"} |->
                 CASE w = "1h" -> 1 [] w = "1d" -> 24 [] w = "1w" -> 24 * 7 [] OTHER -> 24 * 30]
ChartTimeframes == {"1h", "4h", "1d"}
Strategies == {"Short", "Long", "Income"}

RsiPeriod == 14
BollWindow == 20
ShortLimit == 60
LongLimit == 300
IncomeLimit == 120
Ma20Window == 20
Ma50Window == 50
Ma200Window == 200
RsiLow == 30
RsiHigh == 70

\* ------------------------------------------------------------ floats
NaN == [def |-> FALSE, v |-> 0]
Num(x) == [def |-> TRUE, v |-> x]
\* IEEE comparisons: any comparison with NaN is false.
Lt(a, b) == a.def /\ b.def /\ a.v < b.v
Gt(a, b) == a.def /\ b.def /\ a.v > b.v

Min(a, b) == IF a < b THEN a ELSE b
Abs(x) == IF x < 0 THEN -x ELSE x

RECURSIVE Gcd(_, _)
Gcd(a, b) == IF b = 0 THEN a ELSE Gcd(b, a % b)

\* The fraction n/d (d > 0) in lowest terms.
Frac(n, d) == LET g == Gcd(Abs(n), d) IN <<n \div g, d \div g>>
None == <<>>

\* --------------------------------------------------- the exchange
Bar(t, c) == [time |-> t, close |-> c]

\* The strictly increasing series of at most maxlen bars over the hours of grid.
SeriesOver(grid, maxlen, closes) ==
  UNION {{s \in [1..k -> {Bar(t, c) : t \in grid, c \in closes}] :
            \A p \in 1..(k - 1) : s[p].time < s[p + 1].time} : k \in 1..maxlen}

\* What exchange.fetch_ohlcv does on a summary or chart call.
OhlcvResponses(series) ==
  {[kind |-> "ok", bars |-> s] : s \in series}
    \cup {[kind |-> "ok", bars |-> <<>>], [kind |-> "raise", bars |-> <<>>]}

\* What exchange.fetch_ticker does.
TickerResponses(prices) ==
  {[kind |-> "ok", last |-> p] : p \in prices}
    \cup {[kind |-> "none", last |-> 0], [kind |-> "raise", last |-> 0]}

\* ------------------------------------------------------------- state
VARIABLES
  timeframe_option, chart_timeframe, strategy_choice, chart_assets,
  pc, i, j, current_price, df_summary, changes, lst, df_len,
  decision_short, decision_long, decision_income,
  rows, alerts, signal_map, sig, calls, raised

config == <<timeframe_option, chart_timeframe, strategy_choice, chart_assets>>
locals == <<current_price, df_summary, changes, lst, df_len,
            decision_short, decision_long, decision_income>>
outputs == <<rows, alerts, signal_map>>
vars == <<config, pc, i, j, locals, outputs, sig, calls, raised>>

lookback_hours == timeframe_hours[timeframe_option]
symbol == assets[i]

NoRow == [close |-> NaN]

\* The script's names before the loop binds them.
Unbound ==
  /\ current_price = 0 /\ df_summary = <<>> /\ changes = <<>>
  /\ lst = NoRow /\ df_len = 0
  /\ decision_short = "" /\ decision_long = "" /\ decision_income = ""
  /\ sig = "" /\ j = 1

Start ==
  /\ rows = <<>> /\ alerts = <<>>
  /\ signal_map = [s \in AssetSet |-> <<>>]
  /\ calls = <<>> /\ raised = "none"
  /\ Unbound

ChartSelections == {<<>>, assets, <<assets[Len(assets)]>>}

Init ==
  /\ timeframe_option \in DOMAIN timeframe_hours
  /\ chart_timeframe \in ChartTimeframes
  /\ strategy_choice \in Strategies
  /\ chart_assets \in ChartSelections
  /\ pc = "ticker" /\ i = 1
  /\ Start

\* An exception nothing catches: the script run ends there.
Crash(site) == pc' = "crashed" /\ raised' = site

FetchKey(s, tf, lim) == [symbol |-> s, timeframe |-> tf, limit |-> lim]

\* ------------------------------------------------- the summary loop
Ticker(prices) ==
  /\ pc = "ticker"
  /\ \E resp \in TickerResponses(prices) :
       IF resp.kind = "raise"
         THEN Crash("fetch_ticker") /\ UNCHANGED current_price
         ELSE IF resp.kind = "none"
                THEN Crash("ticker_subscript") /\ UNCHANGED current_price
                ELSE /\ current_price' = resp.last
                     /\ pc' = "summary"
                     /\ UNCHANGED raised
  /\ UNCHANGED <<config, i, j, df_summary, changes, lst, df_len,
                 decision_short, decision_long, decision_income,
                 outputs, sig, calls>>

\* Mutant: the frame is kept whole.
Trim_Untrimmed(df, hours) == df

\* df_summary[df_summary["time"] >= cutoff], the cutoff back from the last bar.
Trim(df, hours) ==
  LET cutoff == df[Len(df)].time - hours
  IN SelectSeq(df, LAMBDA b : b.time >= cutoff)

PctValue(price, old_price) == Frac((price - old_price) * 100, old_price)

\* Mutant: the bar at the cutoff itself is left out.
pct_change_StrictCutoff(df, price, period_hours) ==
  LET cutoff_period == df[Len(df)].time - period_hours
      subset == SelectSeq(df, LAMBDA b : b.time > cutoff_period)
  IN IF subset # <<>> THEN PctValue(price, subset[1].close) ELSE None

pct_change(df, price, period_hours) ==
  LET cutoff_period == df[Len(df)].time - period_hours
      subset == SelectSeq(df, LAMBDA b : b.time >= cutoff_period)
  IN IF subset # <<>> THEN PctValue(price, subset[1].close) ELSE None

Summary(series) ==
  /\ pc = "summary"
  /\ calls' = Append(calls, FetchKey(symbol, "1h", Min(lookback_hours, 1000)))
  /\ \E resp \in OhlcvResponses(series) :
       IF resp.kind = "raise"
         THEN Crash("get_ohlcv") /\ UNCHANGED <<df_summary, changes>>
         ELSE IF resp.bars = <<>>
                THEN Crash("iloc_summary") /\ UNCHANGED <<df_summary, changes>>
                ELSE /\ df_summary' = Trim(resp.bars, lookback_hours)
                     /\ changes' = [w \in DOMAIN SubWindows |->
                                      pct_change(df_summary', current_price, SubWindows[w])]
                     /\ pc' = "short"
                     /\ UNCHANGED raised
  /\ UNCHANGED <<config, i, j, current_price, lst, df_len,
                 decision_short, decision_long, decision_income,
                 outputs, sig>>

\* ---------------------------------------------------- indicators
\* compute_rsi at the latest bar: the first delta is NaN, so a full window of
\* RsiPeriod deltas needs RsiPeriod + 1 bars; value is what avg_gain / avg_loss
\* gives on a full window (NaN itself when both averages are zero).
compute_rsi(n, value) == IF n < RsiPeriod + 1 THEN NaN ELSE value

\* compute_bollinger at the latest bar: <<lower, upper>>.
compute_bollinger(n, lower, upper) ==
  IF n < BollWindow THEN <<NaN, NaN>> ELSE <<Num(lower), Num(upper)>>

\* close.rolling(window).mean() at the latest bar.
rolling_mean(n, window, value) == IF n < window THEN NaN ELSE Num(value)

\* compute_macd at the latest bar: <<macd, signal>>.  The EMAs are seeded with
\* the first close, so on one bar both lines are zero.
compute_macd(n, macd, signal) ==
  IF n = 1 THEN <<Num(0), Num(0)>> ELSE <<Num(macd), Num(signal)>>

\* What exchange.fetch_ohlcv does on a strategy call: n bars, the latest close
\* and what each indicator's arithmetic yields on those bars.
ShortFrames(ns, rsis, bands) ==
  {[kind |-> "ok", n |-> n, close |-> 100, rsi |-> r, lower |-> b[1], upper |-> b[2]] :
     n \in ns, r \in rsis, b \in bands}
    \cup {[kind |-> "raise", n |-> 0, close |-> 0, rsi |-> NaN, lower |-> 0, upper |-> 0]}

LongFrames(ns, ma50s, ma200s, closes) ==
  {[kind |-> "ok", n |-> n, close |-> c, ma50 |-> a, ma200 |-> b] :
     n \in ns, c \in closes, a \in ma50s, b \in ma200s}
    \cup {[kind |-> "raise", n |-> 0, close |-> 0, ma50 |-> 0, ma200 |-> 0]}

IncomeFrames(ns, macds, signals, closes) ==
  {[kind |-> "ok", n |-> n, close |-> c, ma20 |-> 100, macd |-> m, signal |-> s] :
     n \in ns, c \in closes, m \in macds, s \in signals}
    \cup {[kind |-> "raise", n |-> 0, close |-> 0, ma20 |-> 0, macd |-> 0, signal |-> 0]}

\* ------------------------------------------------------- strategies
\* Mutant: the overbought branch is tried first.
ShortDecision_SellFirst(row) ==
  IF Gt(row.rsi, Num(RsiHigh)) \/ Gt(row.close, row.bb_upper) THEN "SELL"
  ELSE IF Lt(row.rsi, Num(RsiLow)) \/ Lt(row.close, row.bb_lower) THEN "BUY"
  ELSE "HOLD"

ShortDecision(row) ==
  IF Lt(row.rsi, Num(RsiLow)) \/ Lt(row.close, row.bb_lower) THEN "BUY"
  ELSE IF Gt(row.rsi, Num(RsiHigh)) \/ Gt(row.close, row.bb_upper) THEN "SELL"
  ELSE "HOLD"

\* The alert the branch taken appends, if any.
ShortAlerts(s, decision, row) ==
  IF decision = "BUY" THEN <<[asset |-> s, kind |-> "Oversold", rsi |-> row.rsi]>>
  ELSE IF decision = "SELL" THEN <<[asset |-> s, kind |-> "Overbought", rsi |-> row.rsi]>>
  ELSE <<>>

\* Mutant: the trend branches take a tie for a trend.
LongDecision_TieIsTrend(row) ==
  IF Gt(row.ma50, row.ma200) /\ Gt(row.close, row.ma200) THEN "BUY"
  ELSE IF Lt(row.ma50, row.ma200) /\ Lt(row.close, row.ma200) THEN "SELL"
  ELSE IF ~Lt(row.ma50, row.ma200) /\ row.ma50.def /\ row.ma200.def THEN "BULLISH"
  ELSE IF Lt(row.ma50, row.ma200) THEN "BEARISH"
  ELSE "HOLD"

LongDecision(row) ==
  IF Gt(row.ma50, row.ma200) /\ Gt(row.close, row.ma200) THEN "BUY"
  ELSE IF Lt(row.ma50, row.ma200) /\ Lt(row.close, row.ma200) THEN "SELL"
  ELSE IF Gt(row.ma50, row.ma200) THEN "BULLISH"
  ELSE IF Lt(row.ma50, row.ma200) THEN "BEARISH"
  ELSE "HOLD"

\* Mutant: SELL also when the close sits on MA20.
IncomeDecision_SellOnEqual(row) ==
  IF Gt(row.macd, row.signal) /\ Gt(row.close, row.ma20) THEN "BUY"
  ELSE IF Lt(row.macd, row.signal) /\ ~Gt(row.close, row.ma20) /\ row.ma20.def THEN "SELL"
  ELSE IF Gt(row.macd, row.signal) THEN "BULLISH"
  ELSE IF Lt(row.macd, row.signal) THEN "BEARISH"
  ELSE "HOLD"

IncomeDecision(row) ==
  IF Gt(row.macd, row.signal) /\ Gt(row.close, row.ma20) THEN "BUY"
  ELSE IF Lt(row.macd, row.signal) /\ Lt(row.close, row.ma20) THEN "SELL"
  ELSE IF Gt(row.macd, row.signal) THEN "BULLISH"
  ELSE IF Lt(row.macd, row.signal) THEN "BEARISH"
  ELSE "HOLD"

\* Mutant: the asset's entry is replaced, not extended.
SetSignal_Replace(sm, s, strategy, decision) ==
  [sm EXCEPT ![s] = [k \in {strategy} |-> decision]]

\* signal_map[s][strategy] = decision
SetSignal(sm, s, strategy, decision) ==
  [sm EXCEPT ![s] = [k \in DOMAIN sm[s] \cup {strategy} |->
                       IF k = strategy THEN decision ELSE sm[s][k]]]

Short(frames) ==
  /\ pc = "short"
  /\ calls' = Append(calls, FetchKey(symbol, "1h", ShortLimit))
  /\ \E resp \in frames :
       IF resp.kind = "raise"
         THEN Crash("get_ohlcv") /\ UNCHANGED <<lst, df_len, decision_short, alerts, signal_map>>
         ELSE IF resp.n = 0
                THEN Crash("iloc_short") /\ UNCHANGED <<lst, df_len, decision_short, alerts, signal_map>>
                ELSE LET bb == compute_bollinger(resp.n, resp.lower, resp.upper)
                         row == [close |-> Num(resp.close),
                                 rsi |-> compute_rsi(resp.n, resp.rsi),
                                 bb_lower |-> bb[1], bb_upper |-> bb[2]]
                         decision == ShortDecision(row)
                     IN /\ lst' = row
                        /\ df_len' = resp.n
                        /\ decision_short' = decision
                        /\ alerts' = alerts \o ShortAlerts(symbol, decision, row)
                        /\ signal_map' = SetSignal(signal_map, symbol, "Short", decision)
                        /\ pc' = "long"
                        /\ UNCHANGED raised
  /\ UNCHANGED <<config, i, j, current_price, df_summary, changes,
                 decision_long, decision_income, rows, sig>>

Long(frames) ==
  /\ pc = "long"
  /\ calls' = Append(calls, FetchKey(symbol, "1d", LongLimit))
  /\ \E resp \in frames :
       IF resp.kind = "raise"
         THEN Crash("get_ohlcv") /\ UNCHANGED <<lst, df_len, decision_long, signal_map>>
         ELSE IF resp.n = 0
                THEN Crash("iloc_long") /\ UNCHANGED <<lst, df_len, decision_long, signal_map>>
                ELSE LET row == [close |-> Num(resp.close),
                                 ma50 |-> rolling_mean(resp.n, Ma50Window, resp.ma50),
                                 ma200 |-> rolling_mean(resp.n, Ma200Window, resp.ma200)]
                         decision == LongDecision(row)
                     IN /\ lst' = row
                        /\ df_len' = resp.n
                        /\ decision_long' = decision
                        /\ signal_map' = SetSignal(signal_map, symbol, "Long", decision)
                        /\ pc' = "income"
                        /\ UNCHANGED raised
  /\ UNCHANGED <<config, i, j, current_price, df_summary, changes,
                 decision_short, decision_income, rows, alerts, sig>>

Income(frames) ==
  /\ pc = "income"
  /\ calls' = Append(calls, FetchKey(symbol, "4h", IncomeLimit))
  /\ \E resp \in frames :
       IF resp.kind = "raise"
         THEN Crash("get_ohlcv") /\ UNCHANGED <<lst, df_len, decision_income, signal_map>>
         ELSE IF resp.n = 0
                THEN Crash("iloc_income") /\ UNCHANGED <<lst, df_len, decision_income, signal_map>>
                ELSE LET md == compute_macd(resp.n, resp.macd, resp.signal)
                         row == [close |-> Num(resp.close),
                                 ma20 |-> rolling_mean(resp.n, Ma20Window, resp.ma20),
                                 macd |-> md[1], signal |-> md[2]]
                         decision == IncomeDecision(row)
                     IN /\ lst' = row
                        /\ df_len' = resp.n
                        /\ decision_income' = decision
                        /\ signal_map' = SetSignal(signal_map, symbol, "Income", decision)
                        /\ pc' = "append"
                        /\ UNCHANGED raised
  /\ UNCHANGED <<config, i, j, current_price, df_summary, changes,
                 decision_short, decision_long, rows, alerts, sig>>

SummaryRow ==
  [Asset |-> symbol, Price |-> current_price, Changes |-> changes,
   Trend |-> [k \in 1..Len(df_summary) |-> df_summary[k].close],
   Short |-> decision_short, Long |-> decision_long, Income |-> decision_income]

\* rows.append(...), and the loop's step to the next asset or past its end.
AppendRow ==
  /\ pc = "append"
  /\ rows' = Append(rows, SummaryRow)
  /\ IF i < Len(assets)
       THEN i' = i + 1 /\ pc' = "ticker"
       ELSE i' = i /\ pc' = "flow"
  /\ UNCHANGED <<config, j, locals, alerts, signal_map, sig, calls, raised>>

\* ------------------------------------------------- after the loop
\* sig = signal_map[symbol][strategy_choice], for the next charted asset.
Flow ==
  /\ pc = "flow"
  /\ j <= Len(chart_assets)
  /\ IF strategy_choice \in DOMAIN signal_map[chart_assets[j]]
       THEN /\ sig' = signal_map[chart_assets[j]][strategy_choice]
            /\ j' = j + 1
            /\ UNCHANGED <<pc, raised>>
       ELSE Crash("signal_map") /\ UNCHANGED <<sig, j>>
  /\ UNCHANGED <<config, i, locals, outputs, calls>>

FlowEnd ==
  /\ pc = "flow"
  /\ j > Len(chart_assets)
  /\ pc' = "chart"
  /\ j' = 1
  /\ UNCHANGED <<config, i, locals, outputs, sig, calls, raised>>

\* df_chart = get_ohlcv(symbol, chart_timeframe, limit=limit): an empty frame
\* is charted as it is, nothing indexes it.
Chart(series) ==
  /\ pc = "chart"
  /\ j <= Len(chart_assets)
  /\ calls' = Append(calls, FetchKey(chart_assets[j], chart_timeframe, limit))
  /\ \E resp \in OhlcvResponses(series) :
       IF resp.kind = "raise"
         THEN Crash("get_ohlcv") /\ UNCHANGED j
         ELSE j' = j + 1 /\ UNCHANGED <<pc, raised>>
  /\ UNCHANGED <<config, i, locals, outputs, sig>>

ChartEnd ==
  /\ pc = "chart"
  /\ j > Len(chart_assets)
  /\ pc' = "done"
  /\ UNCHANGED <<config, i, j, locals, outputs, sig, calls, raised>>

\* ------------------------------------------------------------ inputs
HourGrid == {0, 1440, 1441, 1993, 2137, 2160, 2161}
Closes == {100, 110}
Prices == {100, 110}
RichSeries == SeriesOver(HourGrid, MaxBars, Closes)

OnePrice == {110}
OneSeries == {<<Bar(2137, 100), Bar(2161, 105)>>}

RsiValues == {NaN, Num(25), Num(30), Num(50), Num(70), Num(75)}
Bands == {<<90, 110>>, <<100, 100>>, <<105, 120>>, <<80, 95>>}
RichShort == ShortFrames({0, 1, 14, 15, 19, 20, 60}, RsiValues, Bands)
BatchShort == ShortFrames({0, 60}, {Num(25), Num(50), Num(75)}, {<<90, 110>>})
OneShort == ShortFrames({0, 60}, {Num(50)}, {<<90, 110>>})

RichLong == LongFrames({0, 1, 49, 50, 199, 200, 300}, {90, 100, 105, 110}, {100, 105},
                       {90, 100, 105, 110})
BatchLong == LongFrames({0, 300}, {110}, {100}, {95, 105})
OneLong == LongFrames({0, 300}, {110}, {100}, {105})

RichIncome == IncomeFrames({0, 1, 2, 19, 20, 120}, {-1, 0, 1}, {-1, 0, 1}, {90, 100, 110})
BatchIncome == IncomeFrames({0, 5, 120}, {-1}, {0}, {95})
OneIncome == IncomeFrames({0, 120}, {1}, {0}, {110})

\* ---------------------------------------------------- specifications
\* A whole run of the script.
Next ==
  \/ Ticker(OnePrice)
  \/ Summary(OneSeries)
  \/ Short(BatchShort)
  \/ Long(BatchLong)
  \/ Income(BatchIncome)
  \/ AppendRow
  \/ Flow
  \/ FlowEnd
  \/ Chart(OneSeries)
  \/ ChartEnd

Spec == Init /\ [][Next]_vars

\* The sidebar left at its defaults, but for the lookback.
InitLookback ==
  /\ timeframe_option \in DOMAIN timeframe_hours
  /\ chart_timeframe = "1h" /\ strategy_choice = "Short" /\ chart_assets = assets
  /\ pc = "ticker" /\ i = 1
  /\ Start

\* The summary loop, over every latest Short row.
NextAlerts ==
  \/ Ticker(OnePrice)
  \/ Summary(OneSeries)
  \/ Short(RichShort)
  \/ Long(OneLong)
  \/ Income(OneIncome)
  \/ AppendRow

SpecAlerts == InitLookback /\ [][NextAlerts]_vars

\* The first asset up to its percent changes, over every summary series.
NextPct ==
  \/ Ticker(Prices)
  \/ Summary(RichSeries)

SpecPct == InitLookback /\ [][NextPct]_vars

\* The first asset up to its Long decision, over every latest Long row.
NextLong ==
  \/ Ticker(OnePrice)
  \/ Summary(OneSeries)
  \/ Short(OneShort)
  \/ Long(RichLong)

SpecLong == InitLookback /\ [][NextLong]_vars

\* The first asset up to its Income decision, over every latest Income row.
NextIncome ==
  \/ Ticker(OnePrice)
  \/ Summary(OneSeries)
  \/ Short(OneShort)
  \/ Long(OneLong)
  \/ Income(RichIncome)

SpecIncome == InitLookback /\ [][NextIncome]_vars

\* ------------------------------------------------------------ claims
Labels == {"BUY", "SELL", "HOLD", "BULLISH", "BEARISH"}
InLoop == {"ticker", "summary", "short", "long", "income", "append"}
LoopSites == {"fetch_ticker", "ticker_subscript", "get_ohlcv",
              "iloc_summary", "iloc_short", "iloc_long", "iloc_income"}
Last(df) == df[Len(df)]

\* C1: whatever the exchange does for an asset, the summary batch is never
\* cut short: no exception ends the run while assets are still without a row.
C1_BatchNeverAborts ==
  ~(pc = "crashed" /\ raised \in LoopSites /\ Len(rows) < Len(assets))

\* C2: get_ohlcv never raises to its caller, whatever the primary source does.
C2_FetchNeverRaises == raised # "get_ohlcv"

\* C3: within one run no key (asset, timeframe, limit) reaches the exchange
\* twice; in particular the summary fetch of (asset, "1h", 1000) under the 3m
\* lookback and the chart fetch of (asset, "1h", 1000) make one call.
C3_OneUpstreamCallPerKey ==
  \A a, b \in 1..Len(calls) : calls[a] = calls[b] => a = b

\* C4: a strategy whose latest indicators are undefined resolves to HOLD with
\* no alert and does not raise: Short below 20 bars, Long below 200 bars,
\* Income below 20 bars, and each of them on zero bars.
C4_UndefinedIndicatorsHold ==
  /\ raised \notin {"iloc_short", "iloc_long", "iloc_income"}
  /\ (pc = "long" /\ df_len < BollWindow) =>
       /\ decision_short = "HOLD"
       /\ \A k \in 1..Len(alerts) : alerts[k].asset # symbol
  /\ (pc = "income" /\ df_len < Ma200Window) => decision_long = "HOLD"
  /\ (pc = "append" /\ df_len < Ma20Window) => decision_income = "HOLD"

Oversold(r) ==
  (r.rsi.def /\ r.rsi.v < 30) \/ (r.bb_lower.def /\ r.close.v < r.bb_lower.v)
Overbought(r) ==
  (r.rsi.def /\ r.rsi.v > 70) \/ (r.bb_upper.def /\ r.close.v > r.bb_upper.v)

RECURSIVE AlertsOf(_)
\* One (asset, kind) per asset among the first k whose Short decision is BUY or SELL.
AlertsOf(k) ==
  IF k = 0 THEN <<>>
  ELSE LET m == signal_map[assets[k]]
           d == IF "Short" \in DOMAIN m THEN m["Short"] ELSE "HOLD"
       IN AlertsOf(k - 1) \o
            (IF d = "BUY" THEN <<<<assets[k], "Oversold">>>>
             ELSE IF d = "SELL" THEN <<<<assets[k], "Overbought">>>>
             ELSE <<>>)

\* C5: Short is BUY with one oversold alert naming the asset when RSI < 30 or
\* close < lower band (also when the overbought condition holds too), else
\* SELL with one overbought alert when RSI > 70 or close > upper band, else
\* HOLD with no alert; the alert list is, in asset order, one entry per asset
\* whose Short decision is BUY or SELL, and Long and Income add nothing to it.
C5_ShortBranchesAndAlerts ==
  /\ pc = "long" =>
       LET mine == SelectSeq(alerts, LAMBDA a : a.asset = symbol)
           one(kind) == <<[asset |-> symbol, kind |-> kind, rsi |-> lst.rsi]>>
       IN /\ Oversold(lst) => decision_short = "BUY" /\ mine = one("Oversold")
          /\ (~Oversold(lst) /\ Overbought(lst)) =>
               decision_short = "SELL" /\ mine = one("Overbought")
          /\ (~Oversold(lst) /\ ~Overbought(lst)) =>
               decision_short = "HOLD" /\ mine = <<>>
  /\ [k \in 1..Len(alerts) |-> <<alerts[k].asset, alerts[k].kind>>] = AlertsOf(Len(assets))

\* The second asset's Short row is oversold and overbought at once, and is a BUY.
C5_Witness ==
  /\ pc = "long" /\ i = 2
  /\ Oversold(lst) /\ Overbought(lst)
  /\ decision_short = "BUY"
  /\ Len(alerts) = 2

\* The Long decision the claim's branches give, as conditions on the row.
LongBranches(r, d) ==
  LET up == r.ma50.def /\ r.ma200.def /\ r.ma50.v > r.ma200.v
      down == r.ma50.def /\ r.ma200.def /\ r.ma50.v < r.ma200.v
      above == r.ma200.def /\ r.close.v > r.ma200.v
      below == r.ma200.def /\ r.close.v < r.ma200.v
  IN /\ (d = "BUY") <=> (up /\ above)
     /\ (d = "SELL") <=> (down /\ below)
     /\ (d = "BULLISH") <=> (up /\ ~above)
     /\ (d = "BEARISH") <=> (down /\ ~below)
     /\ (d = "HOLD") <=> (~up /\ ~down)

\* C6 as stated: the Long branches, and HOLD exactly when MA50 equals MA200.
C6_HoldOnlyOnTie ==
  pc = "income" =>
    /\ LongBranches(lst, decision_long)
    /\ (decision_long = "HOLD") <=>
         (lst.ma50.def /\ lst.ma200.def /\ lst.ma50.v = lst.ma200.v)

\* C6 (amended): the Long branches, and HOLD exactly when MA50 equals MA200
\* or one of the two averages is undefined, whatever the close is.
C6_HoldOnTieOrUndefined ==
  pc = "income" =>
    /\ LongBranches(lst, decision_long)
    /\ (decision_long = "HOLD") <=>
         (~lst.ma50.def \/ ~lst.ma200.def \/ lst.ma50.v = lst.ma200.v)

\* An exact tie of the two averages under a close above them: HOLD.
C6_Witness ==
  /\ pc = "income"
  /\ lst.ma50 = Num(105) /\ lst.ma200 = Num(105) /\ lst.close = Num(110)
  /\ decision_long = "HOLD"

\* C7: Income is BUY if MACD > signal and close > MA20, else SELL if MACD <
\* signal and close < MA20, else BULLISH if MACD > signal, else BEARISH if
\* MACD < signal, else HOLD; MACD below signal with the close at or above MA20
\* is BEARISH, and HOLD is returned exactly when MACD equals signal.
C7_IncomeBranches ==
  pc = "append" =>
    LET r == lst
        d == decision_income
        up == r.macd.v > r.signal.v
        down == r.macd.v < r.signal.v
        above == r.ma20.def /\ r.close.v > r.ma20.v
        below == r.ma20.def /\ r.close.v < r.ma20.v
    IN /\ r.macd.def /\ r.signal.def
       /\ (d = "BUY") <=> (up /\ above)
       /\ (d = "SELL") <=> (down /\ below)
       /\ (d = "BULLISH") <=> (up /\ ~above)
       /\ (d = "BEARISH") <=> (down /\ ~below)
       /\ (d = "HOLD") <=> (r.macd.v = r.signal.v)
       /\ (down /\ r.ma20.def /\ r.close.v >= r.ma20.v) => d = "BEARISH"

\* MACD below signal with the close on MA20: BEARISH.
C7_Witness ==
  /\ pc = "append"
  /\ lst.macd = Num(-1) /\ lst.signal = Num(0)
  /\ lst.ma20 = Num(100) /\ lst.close = Num(100)
  /\ decision_income = "BEARISH"

\* The bars of df at or after the cutoff of a sub-window of the given hours.
InWindow(df, hours) == {k \in 1..Len(df) : df[k].time >= Last(df).time - hours}
\* The earliest of them.
Earliest(df, hours) ==
  CHOOSE k \in InWindow(df, hours) : \A m \in InWindow(df, hours) : df[k].time <= df[m].time
\* The fraction f is (price - p) / p * 100.
IsPct(f, price, p) == Len(f) = 2 /\ f[2] > 0 /\ f[1] * p = (price - p) * 100 * f[2]

\* C8: each sub-window's change is (current_price - p) / p * 100, p the close
\* of the earliest bar of the trimmed summary series at or after (latest bar
\* time - w), and unavailable when there is no such bar; p = 100 and a current
\* price of 110 give +10.
C8_PercentChange ==
  pc = "short" =>
    \A w \in DOMAIN SubWindows :
      IF InWindow(df_summary, SubWindows[w]) = {}
        THEN changes[w] = None
        ELSE LET p == df_summary[Earliest(df_summary, SubWindows[w])].close
             IN /\ IsPct(changes[w], current_price, p)
                /\ (p = 100 /\ current_price = 110) => changes[w] = <<10, 1>>

\* The 1d change is +10 from a bar that is not the first of the series.
C8_Witness ==
  /\ pc = "short"
  /\ current_price = 110
  /\ Len(df_summary) = 3
  /\ Earliest(df_summary, 24) = 2
  /\ df_summary[1].close = 110 /\ df_summary[2].close = 100
  /\ changes["1d"] = <<10, 1>>

\* C9: every asset the loop is through has, for each strategy, a decision
\* that is one of the five labels, the same in its SummaryRow and in
\* signal_map, so a flowchart lookup never fails and yields a label.
C9_DecisionsRecorded ==
  /\ \A k \in 1..Len(rows) :
       LET m == signal_map[assets[k]]
       IN /\ rows[k].Asset = assets[k]
          /\ DOMAIN m = Strategies
          /\ \A s \in Strategies : m[s] \in Labels
          /\ rows[k].Short = m["Short"]
          /\ rows[k].Long = m["Long"]
          /\ rows[k].Income = m["Income"]
  /\ pc \notin InLoop \cup {"crashed"} => Len(rows) = Len(assets)
  /\ raised # "signal_map"
  /\ (pc \in {"flow", "chart", "done"} /\ j > 1 /\ chart_assets # <<>>) => sig \in Labels

\* A finished run that charted every asset and looked up the Income decisions.
C9_Witness ==
  /\ pc = "done"
  /\ chart_assets = assets /\ strategy_choice = "Income"
  /\ sig = "BEARISH"
  /\ Len(rows) = Len(assets)

\* C10: on a non-empty trimmed series no sub-window's change is unavailable,
\* and a sub-window at least as long as the lookback reports the change from
\* the earliest retained bar, the same as the sub-window of the lookback's
\* own length (the 1m change under the 1w lookback equals the 1w change).
C10_NeverUnavailable ==
  pc = "short" =>
    /\ df_summary # <<>>
    /\ \A w \in DOMAIN SubWindows : changes[w] # None
    /\ \A w \in DOMAIN SubWindows :
         SubWindows[w] >= lookback_hours =>
           /\ IsPct(changes[w], current_price, df_summary[1].close)
           /\ \A u \in DOMAIN SubWindows :
                SubWindows[u] = lookback_hours => changes[w] = changes[u]

\* Under the 1w lookback the 1m change is the 1w change, and not the 1d change.
C10_Witness ==
  /\ pc = "short"
  /\ timeframe_option = "1w"
  /\ Len(df_summary) >= 2
  /\ changes["1m"] = changes["1w"]
  /\ changes["1m"] # changes["1d"]
====
